---- MODULE Spec2Model ----
(***************************************************************************)
(* A model of the two notebooks of the EGRE691 repository:                 *)
(*                                                                         *)
(*   perception/CoordinateTransformExercise.ipynb                          *)
(*       rotation_2d, rigid_transformation2d, the cells that apply and     *)
(*       invert the transforms (both versions of the notebook that the     *)
(*       file holds: the historical one, lines 1-140, and the current one, *)
(*       lines 141-361);                                                   *)
(*   control/VehicleKinematicsExamples.ipynb                               *)
(*       unicycle_motion and its integration by solve_ivp (RK23).          *)
(*                                                                         *)
(* Arithmetic.  The code computes in IEEE doubles.  The model computes in  *)
(* exact arithmetic on the values on which doubles are exact up to the     *)
(* rounding of cos and sin: angles are integer numbers of quarter turns    *)
(* (the unit is pi/2), where cos and sin are -1, 0 or 1, and coordinates   *)
(* are integers.  Every equality below is therefore an equality of the     *)
(* real-valued functions the code evaluates; in doubles it holds up to the *)
(* rounding of cos(pi/2) (6.1e-17 in the notebook's own output).           *)
(***************************************************************************)
EXTENDS Integers, Sequences, FiniteSets, TLC

\* ------------------------------------------------------------------------
\* Bounds of the model
\* ------------------------------------------------------------------------

\* Angles range over -1..MaxAngle quarter turns.
MaxAngle == 3

\* Coordinates of points and translations range over 0..MaxCoord.
MaxCoord == 2

Angles == (-1)..MaxAngle

Coords == 0..MaxCoord

\* A 2-vector as np.array([x, y]).reshape(2,1): a 2x1 matrix.
Vectors == {<< <<x>>, <<y>> >> : x \in Coords, y \in Coords}

\* ------------------------------------------------------------------------
\* math.cos, math.sin on quarter turns; numpy's dot, block, linalg.inv
\* ------------------------------------------------------------------------

\* cos(k * pi/2)
cos(k) ==
    CASE k % 4 = 0 -> 1
      [] k % 4 = 1 -> 0
      [] k % 4 = 2 -> -1
      [] k % 4 = 3 -> 0

\* sin(k * pi/2)
sin(k) ==
    CASE k % 4 = 0 -> 0
      [] k % 4 = 1 -> 1
      [] k % 4 = 2 -> 0
      [] k % 4 = 3 -> -1

\* The sum over k of A[i][k] * B[k][j] for k in 1..n.
RECURSIVE RowByCol(_, _, _, _, _)
RowByCol(A, B, i, j, n) ==
    IF n = 0 THEN 0 ELSE RowByCol(A, B, i, j, n - 1) + A[i][n] * B[n][j]

\* A.dot(B): the matrix product of an m x n and an n x k matrix.
dot(A, B) ==
    [i \in 1..Len(A) |->
        [j \in 1..Len(B[1]) |-> RowByCol(A, B, i, j, Len(B))]]

\* The determinant of a 2x2 matrix.
det2(M) == M[1][1] * M[2][2] - M[1][2] * M[2][1]

\* The determinant of the 2x2 matrix of rows r1, r2 and columns c1, c2 of M.
sub2(M, r1, r2, c1, c2) == M[r1][c1] * M[r2][c2] - M[r1][c2] * M[r2][c1]

\* The determinant of a 3x3 matrix, by its first row.
det3(M) ==
    M[1][1] * sub2(M, 2, 3, 2, 3)
      - M[1][2] * sub2(M, 2, 3, 1, 3)
      + M[1][3] * sub2(M, 2, 3, 1, 2)

det(M) == IF Len(M) = 2 THEN det2(M) ELSE det3(M)

\* The adjugate: the transpose of the matrix of cofactors.
adj(M) ==
    IF Len(M) = 2
    THEN << << M[2][2], -M[1][2]>>,
            <<-M[2][1],  M[1][1]>> >>
    ELSE << << sub2(M, 2, 3, 2, 3), -sub2(M, 1, 3, 2, 3),  sub2(M, 1, 2, 2, 3)>>,
            <<-sub2(M, 2, 3, 1, 3),  sub2(M, 1, 3, 1, 3), -sub2(M, 1, 2, 1, 3)>>,
            << sub2(M, 2, 3, 1, 2), -sub2(M, 1, 3, 1, 2),  sub2(M, 1, 2, 1, 2)>> >>

Transpose(M) == [i \in 1..Len(M[1]) |-> [j \in 1..Len(M) |-> M[j][i]]]

\* The exception numpy.linalg.inv raises for a singular matrix (a value that
\* is no matrix: a sequence of length 1).
LinAlgError == <<"LinAlgError">>

\* Mutant of inv: the transpose taken for the inverse (right for a rotation
\* matrix, wrong for a transform with a translation).
inv_transpose(M) == Transpose(M)

\* np.linalg.inv(M) for a 2x2 or a 3x3 matrix: the inverse, adj(M) / det(M);
\* LinAlgError for a singular matrix.  The quotient is exact for |det| = 1, the
\* only nonsingular case the notebooks reach; any other matrix has no value in
\* the model (TLC stops).
inv(M) ==
    LET d == det(M)
        a == adj(M)
    IN  CASE d = 0 -> LinAlgError
          [] d \in {1, -1} ->
                [i \in 1..Len(M) |-> [j \in 1..Len(M) |-> d * a[i][j]]]

\* Mutant of block: a bottom row of zeros, np.zeros((1,3)).
block_zero_row(R, xi) ==
    << R[1] \o xi[1], R[2] \o xi[2], <<0, 0, 0>> >>

\* np.block([[R, xi], [np.zeros((1,2)), 1.0]])
block(R, xi) ==
    << R[1] \o xi[1], R[2] \o xi[2], <<0, 0, 1>> >>

\* Mutant of Hom: the homogeneous component of a direction, 0.
Hom_direction(v) == << v[1], v[2], <<0>> >>

\* np.array([x, y, 1.]).reshape(3,1) for the point v = (x, y)
Hom(v) == << v[1], v[2], <<1>> >>

\* ------------------------------------------------------------------------
\* perception/CoordinateTransformExercise.ipynb
\* ------------------------------------------------------------------------

\* Mutant of rotation_2d: sin for cos in the last entry (no isometry: a
\* projection at theta = 0, a shear at a quarter turn).
rotation_2d_sheared(theta) ==
    << <<cos(theta), -sin(theta)>>,
       <<sin(theta), sin(theta)>> >>

\* Mutant of rotation_2d: a sign slip in the last entry (a reflection).
rotation_2d_reflect(theta) ==
    << <<cos(theta), -sin(theta)>>,
       <<sin(theta), -cos(theta)>> >>

\* Mutant of rotation_2d: the clockwise matrix (the signs of sin exchanged).
rotation_2d_clockwise(theta) ==
    << <<cos(theta), sin(theta)>>,
       <<-sin(theta), cos(theta)>> >>

\* The current version (line 169).
rotation_2d(theta) ==
    << <<cos(theta), -sin(theta)>>,
       <<sin(theta), cos(theta)>> >>

\* Mutant of rotation_2d_hist: the inversion left out, so that the clockwise
\* matrix itself is returned.
rotation_2d_hist_not_inverted(theta) ==
    << <<cos(theta), sin(theta)>>,
       <<-sin(theta), cos(theta)>> >>

\* The historical version (line 29): the inverse of the clockwise matrix.
rotation_2d_hist(theta) ==
    inv(<< <<cos(theta), sin(theta)>>,
           <<-sin(theta), cos(theta)>> >>)

\* Mutant of rigid_transformation2d: the offset rotated into the frame,
\* [[R, R xi], [0, 0, 1]].
rigid_transformation2d_rotated_offset(theta, xi) ==
    block(rotation_2d(theta), dot(rotation_2d(theta), xi))

\* The current version (line 226).
rigid_transformation2d(theta, xi) == block(rotation_2d(theta), xi)

\* The historical version (line 82), built on the historical rotation_2d.
rigid_transformation2d_hist(theta, Xi) == block(rotation_2d_hist(theta), Xi)

\* ------------------------------------------------------------------------
\* control/VehicleKinematicsExamples.ipynb: the arithmetic
\* ------------------------------------------------------------------------
\* Times, speeds and states are rationals <<n, d>> in lowest terms with d > 0.
\* A heading is a rational number of quarter turns.  The cos and the sin of a
\* heading that is no whole number of quarter turns are not rational: such a
\* value, and what is computed from it, is Unknown, a finite real the model
\* does not know.
\* Each operator takes the values of its operands once (CHOOSE r \in {e : a
\* \in {x}} : TRUE is e with a the value of x).

Abs(n) == IF n < 0 THEN -n ELSE n

RECURSIVE GCD(_, _)
GCD(m, n) ==
    CHOOSE r \in {IF b = 0 THEN a ELSE GCD(b, a % b) : a \in {m}, b \in {n}} : TRUE

\* The rational n / d in lowest terms.
Frac(n, d) ==
    CHOOSE r \in {<<(sgn * n) \div g, (sgn * d) \div g>> :
                      g \in {GCD(Abs(n), Abs(d))},
                      sgn \in {IF d < 0 THEN -1 ELSE 1}} : TRUE

Zero == <<0, 1>>

One == <<1, 1>>

Unknown == <<0, 0>>

\* float('nan'): not a number.
NaN == <<1, 0>>

QAdd(x, y) ==
    CHOOSE r \in {IF a = NaN \/ b = NaN THEN NaN
                  ELSE IF a = Unknown \/ b = Unknown THEN Unknown
                  ELSE Frac(a[1] * b[2] + b[1] * a[2], a[2] * b[2]) :
                      a \in {x}, b \in {y}} : TRUE

QNeg(x) == CHOOSE r \in {IF a[2] = 0 THEN a ELSE <<-a[1], a[2]>> : a \in {x}} : TRUE

QSub(a, b) == QAdd(a, QNeg(b))

\* The product; 0 times a finite real is 0, and nan times anything is nan.
QMul(x, y) ==
    CHOOSE r \in {IF a = NaN \/ b = NaN THEN NaN
                  ELSE IF a = Zero \/ b = Zero THEN Zero
                  ELSE IF a = Unknown \/ b = Unknown THEN Unknown
                  ELSE Frac(a[1] * b[1], a[2] * b[2]) :
                      a \in {x}, b \in {y}} : TRUE

QAbs(x) == CHOOSE r \in {<<Abs(a[1]), a[2]>> : a \in {x}} : TRUE

\* a < b, for known a and b (False when one of them is nan).
QLess(x, y) ==
    CHOOSE r \in {a[2] # 0 /\ b[2] # 0 /\ a[1] * b[2] < b[1] * a[2] :
                      a \in {x}, b \in {y}} : TRUE

\* np.sign
QSign(x) ==
    CHOOSE r \in {IF a[1] > 0 THEN One ELSE IF a[1] < 0 THEN QNeg(One) ELSE Zero :
                      a \in {x}} : TRUE

\* y + z and h * y on states (3-vectors).
VecAdd(y, z) ==
    CHOOSE r \in {<<QAdd(a[1], b[1]), QAdd(a[2], b[2]), QAdd(a[3], b[3])>> :
                      a \in {y}, b \in {z}} : TRUE

VecScale(h, y) ==
    CHOOSE r \in {<<QMul(c, a[1]), QMul(c, a[2]), QMul(c, a[3])>> :
                      c \in {h}, a \in {y}} : TRUE

ZeroVec == <<Zero, Zero, Zero>>

\* math.cos and math.sin of a heading.
qcos(x) ==
    CHOOSE r \in {IF a = NaN THEN NaN
                  ELSE IF a[2] = 1 THEN <<cos(a[1]), 1>> ELSE Unknown : a \in {x}} : TRUE

qsin(x) ==
    CHOOSE r \in {IF a = NaN THEN NaN
                  ELSE IF a[2] = 1 THEN <<sin(a[1]), 1>> ELSE Unknown : a \in {x}} : TRUE

\* ------------------------------------------------------------------------
\* control/VehicleKinematicsExamples.ipynb: the controls and the motion model
\* ------------------------------------------------------------------------

\* The default of unicycle_motion's u_fn (line 43): lambda t, x : [0,0].
u_default == [kind |-> "default", v |-> Zero, omega |-> Zero]

\* A fixed open-loop controller, as u_const_fn (line 85): lambda t,x : [v, omega].
u_const(v, omega) == [kind |-> "const", v |-> v, omega |-> omega]

\* A control that stops returning numbers:
\* lambda t, x : [0., 0.] if t < after else [float('nan'), 0.].
u_nonfinite(after) == [kind |-> "nonfinite", after |-> after]

\* The time-varying open-loop controller partial(open_loop, t_f=t_f), lines
\* 157-160 and 169, with alpha = 0.1.
u_open_loop(t_f) == [kind |-> "open_loop", t_f |-> t_f]

\* open_loop(t, x, t_f): u_1 = alpha (t_f - t) and u_2 = sin(pi t).  pi t is
\* 2 t quarter turns; sin(pi t) rad/s is 0 or, in quarter turns per second,
\* a number the model does not compute.
open_loop(t, x, t_f) ==
    LET u_1 == QMul(Frac(1, 10), QSub(t_f, t))
        s == qsin(QMul(Frac(2, 1), t))
        u_2 == IF s = Zero THEN Zero ELSE Unknown
    IN  <<u_1, u_2>>

\* A control whose output is no pair: lambda t, x : [0.] * n, for n other
\* than 2.
u_bad_shape(n) == [kind |-> "bad_shape", n |-> n]

\* Mutant of u_fn_call: a default control that turns, lambda t, x : [0,1].
u_fn_call_default_turns(u_fn, t, x) ==
    CASE u_fn.kind = "default" -> <<Zero, One>>
      [] u_fn.kind = "const" -> <<u_fn.v, u_fn.omega>>
      [] u_fn.kind = "nonfinite" ->
            IF QLess(t, u_fn.after) THEN <<Zero, Zero>> ELSE <<NaN, Zero>>
      [] u_fn.kind = "bad_shape" -> [i \in 1..u_fn.n |-> Zero]
      [] u_fn.kind = "open_loop" -> open_loop(t, x, u_fn.t_f)

\* Mutant of u_fn_call: an output that is no pair is replaced by the default
\* control [0, 0].
u_fn_call_falls_back(u_fn, t, x) ==
    CASE u_fn.kind = "default" -> <<Zero, Zero>>
      [] u_fn.kind = "const" -> <<u_fn.v, u_fn.omega>>
      [] u_fn.kind = "nonfinite" ->
            IF QLess(t, u_fn.after) THEN <<Zero, Zero>> ELSE <<NaN, Zero>>
      [] u_fn.kind = "bad_shape" -> <<Zero, Zero>>
      [] u_fn.kind = "open_loop" -> open_loop(t, x, u_fn.t_f)

\* u_fn(t, x)
u_fn_call(u_fn, t, x) ==
    CASE u_fn.kind = "default" -> <<Zero, Zero>>
      [] u_fn.kind = "const" -> <<u_fn.v, u_fn.omega>>
      [] u_fn.kind = "nonfinite" ->
            IF QLess(t, u_fn.after) THEN <<Zero, Zero>> ELSE <<NaN, Zero>>
      [] u_fn.kind = "bad_shape" -> [i \in 1..u_fn.n |-> Zero]
      [] u_fn.kind = "open_loop" -> open_loop(t, x, u_fn.t_f)

\* The exception of an unpacking [v, omega] = ... of a value that is no pair.
ValueError == <<"ValueError">>

\* Mutant of unicycle_motion: cos and sin exchanged.
unicycle_motion_swapped(t, x, u_fn) ==
    LET u == u_fn_call(u_fn, t, x)
        v == u[1]
        omega == u[2]
        th == x[3]
    IN  IF Len(u) # 2 THEN ValueError
        ELSE <<QMul(v, qsin(th)), QMul(v, qcos(th)), omega>>

\* Mutant of unicycle_motion: theta_dot = v, the wrong component of the control.
unicycle_motion_turns_by_speed(t, x, u_fn) ==
    LET u == u_fn_call(u_fn, t, x)
        v == u[1]
        th == x[3]
    IN  IF Len(u) # 2 THEN ValueError
        ELSE <<QMul(v, qcos(th)), QMul(v, qsin(th)), v>>

\* unicycle_motion(t, x, u_fn), lines 43-58; the unpacking of line 53 raises
\* when u_fn(t, x) is no pair.
unicycle_motion(t, x, u_fn) ==
    LET u == u_fn_call(u_fn, t, x)
        v == u[1]
        omega == u[2]
        th == x[3]
        x_dot == QMul(v, qcos(th))
        y_dot == QMul(v, qsin(th))
        theta_dot == omega
    IN  IF Len(u) # 2 THEN ValueError ELSE <<x_dot, y_dot, theta_dot>>

\* ------------------------------------------------------------------------
\* scipy.integrate.solve_ivp(model_fn, t_span, x_0, method='RK23'), line 98
\* ------------------------------------------------------------------------
\* The explicit Runge-Kutta method of order 3(2) of Bogacki and Shampine, as
\* solve_ivp's RK23 runs it.  The stages, the new state and the error estimate
\* are computed exactly.  The step-size control is abstracted: a step whose
\* error estimate is 0 is accepted and the step grows by MAX_FACTOR, as in the
\* solver; a step whose error estimate is not 0 (or is Unknown) is accepted or
\* rejected, and the step is scaled, by a choice among the factors the
\* solver's rule allows.

\* One step of the method from (t, y) with f = fun(t, y) and the step h:
\* the new state, fun at the new state and the error estimate.
rk_step(t, y, f, h, u_fn) ==
    LET K0 == f
        Stage1 == unicycle_motion(QAdd(t, QMul(Frac(1, 2), h)),
                                  VecAdd(y, VecScale(h, VecScale(Frac(1, 2), K0))),
                                  u_fn)
        Stage2(K1) == unicycle_motion(QAdd(t, QMul(Frac(3, 4), h)),
                                      VecAdd(y, VecScale(h, VecScale(Frac(3, 4), K1))),
                                      u_fn)
        NewState(K1, K2) ==
            VecAdd(y, VecScale(h,
                VecAdd(VecAdd(VecScale(Frac(2, 9), K0),
                              VecScale(Frac(1, 3), K1)),
                       VecScale(Frac(4, 9), K2))))
        Error(K1, K2, K3) ==
            VecScale(h,
                VecAdd(VecAdd(VecScale(Frac(5, 72), K0),
                              VecScale(Frac(-1, 12), K1)),
                       VecAdd(VecScale(Frac(-1, 9), K2),
                              VecScale(Frac(1, 8), K3))))
        Finish(K1, K2, y_new, f_new) ==
            [y_new |-> y_new, f_new |-> f_new, err |-> Error(K1, K2, f_new)]
        WithState(K1, K2, y_new) ==
            CHOOSE r \in {Finish(K1, K2, y_new, K3) :
                              K3 \in {unicycle_motion(QAdd(t, h), y_new, u_fn)}} : TRUE
        WithStage2(K1, K2) ==
            CHOOSE r \in {WithState(K1, K2, y_new) :
                              y_new \in {NewState(K1, K2)}} : TRUE
        WithStage1(K1) ==
            CHOOSE r \in {WithStage2(K1, K2) : K2 \in {Stage2(K1)}} : TRUE
    IN  CHOOSE r \in {WithStage1(K1) : K1 \in {Stage1}} : TRUE

\* The largest factor a step grows by (scipy's MAX_FACTOR).
MAX_FACTOR == Frac(10, 1)

\* The factors of an accepted step with a nonzero error estimate,
\* min(MAX_FACTOR, SAFETY * error_norm ** (-1/3)) for error_norm < 1: a sample
\* of the interval (0.9, 10].
AcceptFactors == {One, Frac(2, 1)}

\* The factors of a rejected step,
\* max(MIN_FACTOR, SAFETY * error_norm ** (-1/3)) for error_norm >= 1: a sample
\* of the interval [0.2, 0.9].
RejectFactors == {Frac(1, 2)}

\* The smallest step the solver takes, 10 ulp of t in the solver; the time
\* resolution of the model.
MinStep == Frac(1, 2)

\* The first steps, select_initial_step's choice: a sample.
StepSizes == {Frac(1, 2), One}

QMin(a, b) == IF QLess(b, a) THEN b ELSE a

\* Whether the error estimate is nan: error_norm < 1 is then False.
IsNaN(err) == \E i \in 1..3 : err[i] = NaN

\* Whether the error estimate may be 0, and whether it may be other than 0.
MayBeZero(err) == \A i \in 1..3 : err[i] \in {Zero, Unknown}

MayBeNonzero(err) == err # ZeroVec

\* Mutant of GrowthFactors: the test error_norm < 1 never passes, no step is
\* accepted.
GrowthFactors_never_accepts(err) == {}

\* The factors an accepted step may grow by (none: the step is not accepted).
GrowthFactors(err) ==
    IF IsNaN(err) THEN {}
    ELSE (IF MayBeZero(err) THEN {MAX_FACTOR} ELSE {})
             \cup (IF MayBeNonzero(err) THEN AcceptFactors ELSE {})

\* A name not bound yet (a value that is no matrix: the empty sequence).
None == << >>

VARIABLES
    pc,        \* the cell of the perception notebook that runs next
    raised,    \* the exception that stopped the notebook, or None
    theta,     \* the rotation of frame A relative to frame O
    xi_OA,     \* the translation of frame A relative to frame O
    pA,        \* a point (2x1)
    p0,        \* historical notebook: rotation_2d(theta).dot(pA)
    test,      \* historical notebook: rigid_transformation2d(theta, Xi)
    R_OA,      \* rotation_2d(theta)
    pO_rot,    \* R_OA.dot(pA)
    T_OA,      \* rigid_transformation2d(theta, xi_OA)
    pO,        \* T_OA.dot(pA_hom)
    T_AO,      \* np.linalg.inv(T_OA)
    pA_inv,    \* T_AO.dot(pO_hom)
    theta_b,   \* the rotation of frame B relative to frame O
    xi_ob,     \* the translation of frame B relative to frame O
    t_ob,      \* rigid_transformation2d(theta_b, xi_ob)
    t_bo,      \* np.linalg.inv(t_ob)
    bp         \* t_bo.dot(op)

inputs == <<theta, xi_OA, pA>>

histVars == <<p0, test>>

frameVars == <<R_OA, pO_rot, T_OA, pO, T_AO, pA_inv>>

chainVars == <<theta_b, xi_ob, t_ob, t_bo, bp>>

perceptionVars == <<pc, raised, inputs, histVars, frameVars, chainVars>>

VARIABLES
    kpc,            \* the place the kinematics notebook is at
    t_span,         \* (t0, t_f)
    x_0,            \* the initial state (x, y, theta)
    u_fn,           \* the control bound to unicycle_motion (model_fn)
    sol_t,          \* solver.t
    sol_y,          \* solver.y
    sol_f,          \* solver.f = fun(solver.t, solver.y)
    h_abs,          \* solver.h_abs
    step_rejected,  \* whether the step in progress has rejected an attempt
    status,         \* solver.status
    ts,             \* the sample times solve_ivp collects
    ys,             \* the sample states solve_ivp collects
    soln,           \* the result solve_ivp returns (first integration)
    kraised,        \* the exception that stopped the kinematics notebook, or None
    T_samples,      \* T = soln.t
    X_samples,      \* X = soln.y
    run,            \* the integration in progress: 1 (soln) or 2 (soln2)
    soln2           \* the result of the second integration

kinInputs == <<t_span, x_0, u_fn>>

solverVars == <<sol_t, sol_y, sol_f, h_abs, step_rejected, status>>

callerVars == <<kraised, T_samples, X_samples, run, soln2>>

kinVars == <<kpc, kinInputs, solverVars, ts, ys, soln, callerVars>>

vars == <<perceptionVars, kinVars>>

InitPerception ==
    /\ pc = "hist"
    /\ raised = None
    /\ theta \in Angles
    /\ xi_OA \in Vectors
    /\ pA \in Vectors
    /\ p0 = None /\ test = None
    /\ R_OA = None /\ pO_rot = None
    /\ T_OA = None /\ pO = None
    /\ T_AO = None /\ pA_inv = None
    /\ theta_b = None /\ xi_ob = None
    /\ t_ob = None /\ t_bo = None /\ bp = None

\* A cell whose statement raises: the notebook stops there and the names the
\* cell was about to bind stay unbound.
Raise(e) ==
    /\ raised' = e
    /\ pc' = "error"
    /\ UNCHANGED <<inputs, histVars, frameVars, chainVars>>

\* Historical notebook, lines 53-60 and 82-86: p0 = rotation_2d(theta).dot(pA)
\* and test = rigid_transformation2d(theta, ..), on the historical rotation_2d.
CellHist ==
    /\ pc = "hist"
    /\ UNCHANGED kinVars
    /\ IF rotation_2d_hist(theta) = LinAlgError
       THEN Raise(LinAlgError)
       ELSE /\ p0' = dot(rotation_2d_hist(theta), pA)
            /\ test' = rigid_transformation2d_hist(theta, xi_OA)
            /\ pc' = "rotate"
            /\ UNCHANGED <<raised, inputs, frameVars, chainVars>>

\* Lines 199-204: R_OA = rotation_2d(..); R_OA.dot(pA).
CellRotate ==
    /\ pc = "rotate"
    /\ UNCHANGED kinVars
    /\ R_OA' = rotation_2d(theta)
    /\ pO_rot' = dot(R_OA', pA)
    /\ pc' = "rigid"
    /\ UNCHANGED <<raised, inputs, histVars, T_OA, pO, T_AO, pA_inv, chainVars>>

\* Lines 254-256: T_OA = rigid_transformation2d(.., xi_OA).
CellRigid ==
    /\ pc = "rigid"
    /\ UNCHANGED kinVars
    /\ T_OA' = rigid_transformation2d(theta, xi_OA)
    /\ pc' = "apply"
    /\ UNCHANGED <<raised, inputs, histVars, R_OA, pO_rot, pO, T_AO, pA_inv,
                   chainVars>>

\* Lines 275-276: T_OA.dot(pA_hom).
CellApply ==
    /\ pc = "apply"
    /\ UNCHANGED kinVars
    /\ pO' = dot(T_OA, Hom(pA))
    /\ pc' = "invert"
    /\ UNCHANGED <<raised, inputs, histVars, R_OA, pO_rot, T_OA, T_AO, pA_inv,
                   chainVars>>

\* Lines 302-305: T_AO = np.linalg.inv(T_OA); T_AO.dot(pO_hom).
CellInvert ==
    /\ pc = "invert"
    /\ UNCHANGED kinVars
    /\ IF inv(T_OA) = LinAlgError
       THEN Raise(LinAlgError)
       ELSE /\ T_AO' = inv(T_OA)
            /\ pA_inv' = dot(T_AO', Hom(pA))
            /\ pc' = "chain"
            /\ UNCHANGED <<raised, inputs, histVars, R_OA, pO_rot, T_OA, pO,
                           chainVars>>

\* Lines 324-336: the chain A -> O -> B: op = t_oa.dot(ap), t_ob, its inverse
\* t_bo and bp = t_bo.dot(op).  t_oa is T_OA, ap is the point pA and op is pO.
CellChain ==
    /\ pc = "chain"
    /\ UNCHANGED kinVars
    /\ \E th \in Angles, xi \in Vectors :
          LET t == rigid_transformation2d(th, xi)
              ti == inv(t)
          IN  IF ti = LinAlgError
              THEN Raise(LinAlgError)
              ELSE /\ theta_b' = th
                   /\ xi_ob' = xi
                   /\ t_ob' = t
                   /\ t_bo' = ti
                   /\ bp' = dot(ti, pO)
                   /\ pc' = "done"
                   /\ UNCHANGED <<raised, inputs, histVars, frameVars>>

\* The perception notebook does not run.
PerceptionIdle ==
    /\ pc = "off"
    /\ raised = None
    /\ theta = None /\ xi_OA = None /\ pA = None
    /\ p0 = None /\ test = None
    /\ R_OA = None /\ pO_rot = None
    /\ T_OA = None /\ pO = None
    /\ T_AO = None /\ pA_inv = None
    /\ theta_b = None /\ xi_ob = None
    /\ t_ob = None /\ t_bo = None /\ bp = None

\* The kinematics notebook does not run.
KinIdle ==
    /\ kpc = "off"
    /\ t_span = None /\ x_0 = None /\ u_fn = None
    /\ sol_t = None /\ sol_y = None /\ sol_f = None
    /\ h_abs = None /\ step_rejected = FALSE /\ status = "none"
    /\ ts = None /\ ys = None /\ soln = None
    /\ kraised = None /\ T_samples = None /\ X_samples = None
    /\ run = 0 /\ soln2 = None

Next ==
    \/ CellHist
    \/ CellRotate
    \/ CellRigid
    \/ CellApply
    \/ CellInvert
    \/ CellChain

Init == InitPerception /\ KinIdle

Spec == Init /\ [][Next]_vars

\* ------------------------------------------------------------------------
\* control/VehicleKinematicsExamples.ipynb: the integration
\* ------------------------------------------------------------------------

\* The largest end of a time span.
MaxTime == 3

\* (t0, t_f): forwards, empty and backwards spans.
TimeSpans == {<<Frac(a, 1), Frac(b, 1)>> : a \in 0..1, b \in 0..MaxTime}

\* Initial states (x, y, theta).
InitialStates ==
    {<<Frac(x, 1), Frac(y, 1), Frac(th, 1)>> : x \in 0..1, y \in 0..1, th \in Angles}

\* The controls: none given (the default), no motion, straight ahead at
\* v = 0.5, turning on the spot at omega = pi/6 (a third of a quarter turn per
\* second), the notebook's u_const_fn (v = 0.5, omega = pi/6), and v = 0.5 at
\* a quarter turn per second, a control that returns nan from t = 2 on, and
\* controls that return one and three components.
Controls ==
    {u_default,
     u_const(Zero, Zero),
     u_const(Frac(1, 2), Zero),
     u_const(Zero, Frac(1, 3)),
     u_const(Frac(1, 2), Frac(1, 3)),
     u_const(Frac(1, 2), One),
     u_nonfinite(Frac(2, 1)),
     u_bad_shape(1),
     u_bad_shape(3)}

\* Lines 77-87: t_span, x_0 and the control bound to unicycle_motion.
InitKinematics ==
    /\ kpc = "solve"
    /\ t_span \in TimeSpans
    /\ x_0 \in InitialStates
    /\ u_fn \in Controls
    /\ sol_t = None /\ sol_y = None /\ sol_f = None
    /\ h_abs = None /\ step_rejected = FALSE /\ status = "none"
    /\ ts = None /\ ys = None /\ soln = None
    /\ kraised = None /\ T_samples = None /\ X_samples = None
    /\ run = 1 /\ soln2 = None

t_bound == t_span[2]

\* The control of the integration in progress: model_fn (line 87) in the
\* first, model_fn2 (line 169) in the second.
model_fn == IF run = 2 THEN u_open_loop(t_span[2]) ELSE u_fn

\* OdeSolver.direction: np.sign(t_bound - t0) if t_bound != t0 else 1
direction == IF t_span[2] = t_span[1] THEN One ELSE QSign(QSub(t_span[2], t_span[1]))

\* Line 98, solve_ivp up to its loop: the solver is built (fun is evaluated at
\* the initial state, the first step is selected) and the first sample is
\* the initial state.
\* An exception of fun at the initial state leaves solve_ivp and ends the cell.
SolveStart ==
    /\ kpc = "solve"
    /\ \E f0 \in {unicycle_motion(t_span[1], x_0, u_fn)} :
          IF f0 = ValueError
          THEN /\ kraised' = ValueError
               /\ kpc' = "raised"
               /\ UNCHANGED <<solverVars, ts, ys, T_samples, X_samples, run, soln2>>
          ELSE /\ sol_t' = t_span[1]
               /\ sol_y' = x_0
               /\ sol_f' = f0
               /\ h_abs' \in StepSizes
               /\ step_rejected' = FALSE
               /\ status' = "running"
               /\ ts' = <<t_span[1]>>
               /\ ys' = <<x_0>>
               /\ kpc' = "loop"
               /\ UNCHANGED callerVars
    /\ UNCHANGED <<perceptionVars, kinInputs, soln>>

\* solver.step() with solver.t == solver.t_bound: the solver finishes where it
\* is, and solve_ivp appends the sample.
StepAtBound ==
    /\ kpc = "loop"
    /\ sol_t = t_bound
    /\ status' = "finished"
    /\ ts' = Append(ts, t_bound)
    /\ ys' = Append(ys, sol_y)
    /\ kpc' = "return"
    /\ UNCHANGED <<perceptionVars, kinInputs, callerVars, sol_t, sol_y, sol_f, h_abs,
                   step_rejected, soln>>

\* The step the next attempt of _step_impl tries: h_abs, not below min_step on
\* entry, and cut so that the step does not pass t_bound.
AttemptStep ==
    LET h0 == IF ~step_rejected /\ QLess(h_abs, MinStep) THEN MinStep ELSE h_abs
        t_new == QAdd(sol_t, QMul(h0, direction))
        t_cut == IF QLess(Zero, QMul(direction, QSub(t_new, t_bound)))
                 THEN t_bound ELSE t_new
    IN  QSub(t_cut, sol_t)

Attempting ==
    /\ kpc = "loop"
    /\ sol_t # t_bound
    /\ ~(step_rejected /\ QLess(h_abs, MinStep))

\* An attempt of _step_impl that is accepted: the solver moves to the new
\* state, and solve_ivp appends the sample and leaves its loop at t_bound.
StepAccept ==
    /\ Attempting
    /\ \E h \in {AttemptStep} :
       \E r \in {rk_step(sol_t, sol_y, sol_f, h, model_fn)} :
       \E t_new \in {QAdd(sol_t, h)} :
          /\ \E factor \in GrowthFactors(r.err) :
                h_abs' = QMul(QAbs(h),
                              IF step_rejected THEN QMin(One, factor) ELSE factor)
          /\ sol_t' = t_new
          /\ sol_y' = r.y_new
          /\ sol_f' = r.f_new
          /\ ts' = Append(ts, t_new)
          /\ ys' = Append(ys, r.y_new)
          /\ IF ~QLess(QMul(direction, QSub(t_new, t_bound)), Zero)
             THEN status' = "finished" /\ kpc' = "return"
             ELSE status' = "running" /\ kpc' = "loop"
    /\ step_rejected' = FALSE
    /\ UNCHANGED <<perceptionVars, kinInputs, callerVars, soln>>

\* An attempt of _step_impl that is rejected (its error estimate is not 0):
\* the step shrinks and the attempt is repeated.  An error estimate that is a
\* number is within the tolerance before the step is under min_step (in the
\* solver min_step is 10 ulp of t); one that is nan never is.
StepReject ==
    /\ Attempting
    /\ \E h \in {AttemptStep} :
       \E r \in {rk_step(sol_t, sol_y, sol_f, h, model_fn)} :
          /\ MayBeNonzero(r.err)
          /\ \E factor \in RejectFactors : h_abs' = QMul(QAbs(h), factor)
          /\ IsNaN(r.err) \/ ~QLess(h_abs', MinStep)
    /\ step_rejected' = TRUE
    /\ UNCHANGED <<perceptionVars, kinInputs, callerVars, sol_t, sol_y, sol_f, status, ts,
                   ys, kpc, soln>>

\* _step_impl with the step below min_step after a rejection: the step fails,
\* the solver's status is "failed" and solve_ivp leaves its loop.
StepFail ==
    /\ kpc = "loop"
    /\ sol_t # t_bound
    /\ step_rejected /\ QLess(h_abs, MinStep)
    /\ status' = "failed"
    /\ kpc' = "return"
    /\ UNCHANGED <<perceptionVars, kinInputs, callerVars, sol_t, sol_y, sol_f, h_abs,
                   step_rejected, ts, ys, soln>>

\* Line 98, solve_ivp's return: soln holds the samples and the status.
SolveReturn ==
    /\ kpc = "return"
    /\ \E result \in {[t |-> ts, y |-> ys,
                        status |-> IF status = "finished" THEN 0 ELSE -1,
                        success |-> status = "finished"]} :
          IF run = 2
          THEN soln2' = result /\ kpc' = "done2" /\ UNCHANGED soln
          ELSE soln' = result /\ kpc' = "done" /\ UNCHANGED soln2
    /\ UNCHANGED <<perceptionVars, kinInputs, solverVars, ts, ys, kraised,
                   T_samples, X_samples, run>>

\* Lines 108-109: T = soln.t and X = soln.y, whatever soln.status is.
CellRead ==
    /\ kpc = "done"
    /\ T_samples' = soln.t
    /\ X_samples' = soln.y
    /\ kpc' = "read"
    /\ UNCHANGED <<perceptionVars, kinInputs, solverVars, ts, ys, soln, kraised,
                   run, soln2>>

\* Lines 169-170: soln2 = solve_ivp(model_fn2, t_span, x_0, ...), started on
\* the initial state y0.
SecondSolve(y0) ==
    /\ kpc = "read"
    /\ run = 1
    /\ run' = 2
    /\ x_0' = y0
    /\ sol_t' = t_span[1]
    /\ sol_y' = y0
    /\ sol_f' = unicycle_motion(t_span[1], y0, u_open_loop(t_span[2]))
    /\ h_abs' \in StepSizes
    /\ step_rejected' = FALSE
    /\ status' = "running"
    /\ ts' = <<t_span[1]>>
    /\ ys' = <<y0>>
    /\ kpc' = "loop"
    /\ UNCHANGED <<perceptionVars, t_span, u_fn, soln, kraised, T_samples,
                   X_samples, soln2>>

\* Mutant of SolveStart2: x_0 was the solver's array and has been advanced in
\* place, so the second integration starts where the first one ended.
SolveStart2_from_last_state == SecondSolve(sol_y)

SolveStart2 == SecondSolve(x_0)

NextKin ==
    \/ SolveStart
    \/ StepAtBound
    \/ StepAccept
    \/ StepReject
    \/ StepFail
    \/ SolveReturn
    \/ CellRead

InitKin == PerceptionIdle /\ InitKinematics

SpecKin == InitKin /\ [][NextKin]_vars

\* The first integration, run by an interpreter that executes the next
\* statement whenever there is one.
SpecKinFair == InitKin /\ [][NextKin]_vars /\ WF_vars(NextKin)

\* Both notebooks, each run from its first cell to its last; the kinematics
\* notebook with a span from 0, the origin or another initial state, and
\* u_const_fn, no control or a control that turns non-finite, and both of its
\* integrations.
InitKinematics2 ==
    /\ InitKinematics
    /\ t_span \in {<<Zero, Frac(b, 1)>> : b \in 0..MaxTime}
    /\ x_0 \in {ZeroVec, <<One, One, One>>}
    /\ u_fn \in {u_default, u_const(Frac(1, 2), Frac(1, 3)), u_nonfinite(Frac(2, 1))}

InitNotebooks == Init \/ (PerceptionIdle /\ InitKinematics2)

NextNotebooks == Next \/ NextKin \/ SolveStart2

SpecNotebooks == InitNotebooks /\ [][NextNotebooks]_vars

\* ------------------------------------------------------------------------
\* The values the specification states (section 3, Data model)
\* ------------------------------------------------------------------------

I2 == << <<1, 0>>, <<0, 1>> >>

I3 == << <<1, 0, 0>>, <<0, 1, 0>>, <<0, 0, 1>> >>

\* R(th) = [[cos th, -sin th], [sin th, cos th]]
RotationMatrix(th) ==
    << <<cos(th), -sin(th)>>,
       <<sin(th), cos(th)>> >>

\* The 2x1 vector R(th) * (x, y) + (ax, ay)
RotateThenAdd(th, x, y, ax, ay) ==
    << <<cos(th) * x - sin(th) * y + ax>>,
       <<sin(th) * x + cos(th) * y + ay>> >>

X(v) == v[1][1]

Y(v) == v[2][1]

\* The rotation block and the translation column of a 3x3 matrix.
RotOf(T) == << <<T[1][1], T[1][2]>>, <<T[2][1], T[2][2]>> >>

TransOf(T) == << <<T[1][3]>>, <<T[2][3]>> >>

\* T = [[R(th), xi], [0, 0, 1]]
IsTransform(T, th, xi) ==
    /\ RotOf(T) = RotationMatrix(th)
    /\ TransOf(T) = xi
    /\ T[3] = <<0, 0, 1>>

\* T = [[R(-th), -R(-th) xi], [0, 0, 1]]
IsInverseTransform(T, th, xi) ==
    IsTransform(T, -th, RotateThenAdd(-th, -X(xi), -Y(xi), 0, 0))

\* ------------------------------------------------------------------------
\* Claims
\* ------------------------------------------------------------------------

\* C1: the product of two rotation matrices is the rotation matrix of the sum
\* of their angles: rotation_2d(theta) . rotation_2d(theta_b) equals
\* rotation_2d(theta + theta_b), for the rotation of frame A (R_OA) and the
\* rotation block of the transform of frame B (t_ob).
C1_RotationsCompose ==
    pc = "done" =>
        /\ RotOf(t_ob) = rotation_2d(theta_b)
        /\ dot(R_OA, RotOf(t_ob)) = rotation_2d(theta + theta_b)
        /\ dot(RotOf(t_ob), R_OA) = rotation_2d(theta_b + theta)

\* A quarter turn followed by a half turn is three quarter turns.
C1_Witness ==
    /\ pc = "done"
    /\ theta = 1
    /\ theta_b = 2
    /\ dot(R_OA, RotOf(t_ob)) = << <<0, 1>>, <<-1, 0>> >>

\* C2: rotation_2d(theta) is orthonormal with determinant 1: its transpose
\* times itself is the identity, and its transpose is its inverse and is
\* rotation_2d(-theta).
C2_RotationOrthonormal ==
    R_OA # None =>
        /\ dot(Transpose(R_OA), R_OA) = I2
        /\ dot(R_OA, Transpose(R_OA)) = I2
        /\ det(R_OA) = 1
        /\ Transpose(R_OA) = inv(R_OA)
        /\ Transpose(R_OA) = rotation_2d(-theta)

C2_Witness ==
    /\ R_OA = << <<0, -1>>, <<1, 0>> >>
    /\ theta = 1
    /\ inv(R_OA) = << <<0, 1>>, <<-1, 0>> >>

\* C3: inversion round trip: the inverse of the inverse of T_OA is T_OA, T_OA
\* times its inverse (on either side) is the 3x3 identity, and a point mapped
\* from frame A to frame O by T_OA and back by the inverse is the point.
C3_InverseRoundTrip ==
    T_AO # None =>
        /\ inv(T_AO) = T_OA
        /\ dot(T_OA, T_AO) = I3
        /\ dot(T_AO, T_OA) = I3
        /\ dot(T_AO, pO) = Hom(pA)
        /\ dot(T_OA, pA_inv) = Hom(pA)

\* A transform with a rotation and a translation, inverted.
C3_Witness ==
    /\ T_AO # None
    /\ theta = 1
    /\ xi_OA = << <<1>>, <<2>> >>
    /\ T_AO # T_OA
    /\ pA = << <<2>>, <<1>> >>
    /\ pO # Hom(pA)

\* C4: every matrix rigid_transformation2d returns (either version) is
\* [[R(theta), xi], [0, 0, 1]], and its inverse is again a transform: bottom
\* row [0, 0, 1], rotation block R(-theta), translation -R(-theta) xi.
C4_TransformShape ==
    /\ test # None => IsTransform(test, theta, xi_OA)
    /\ T_OA # None => IsTransform(T_OA, theta, xi_OA)
    /\ T_AO # None => IsInverseTransform(T_AO, theta, xi_OA)
    /\ t_ob # None => IsTransform(t_ob, theta_b, xi_ob)
    /\ t_bo # None => IsInverseTransform(t_bo, theta_b, xi_ob)

C4_Witness ==
    /\ theta = 1
    /\ xi_OA = << <<1>>, <<2>> >>
    /\ test = << <<0, -1, 1>>, <<1, 0, 2>>, <<0, 0, 1>> >>
    /\ T_OA = << <<0, -1, 1>>, <<1, 0, 2>>, <<0, 0, 1>> >>
    /\ T_AO = << <<0, 1, -2>>, <<-1, 0, 1>>, <<0, 0, 1>> >>
    /\ t_bo # None

C6_ApplyTransform ==
    pO # None =>
        /\ pO = Hom(RotateThenAdd(theta, X(pA), Y(pA), X(xi_OA), Y(xi_OA)))
        /\ (theta = 1 /\ xi_OA = << <<1>>, <<1>> >> /\ pA = << <<1>>, <<2>> >>)
              => pO = << <<-1>>, <<2>>, <<1>> >>

C6_Witness ==
    /\ theta = 1
    /\ xi_OA = << <<1>>, <<1>> >>
    /\ pA = << <<1>>, <<2>> >>
    /\ pO = << <<-1>>, <<2>>, <<1>> >>

\* C7: the inverse of T_OA applied to the homogeneous point (x, y, 1) of frame
\* O is (R(-theta) ((x, y) - xi), 1); for a quarter turn, xi = (1, 1) and the
\* point (1, 0) it is (-1, 0, 1).
C7_ApplyInverse ==
    pA_inv # None =>
        /\ pA_inv = Hom(RotateThenAdd(-theta, X(pA) - X(xi_OA),
                                      Y(pA) - Y(xi_OA), 0, 0))
        /\ (theta = 1 /\ xi_OA = << <<1>>, <<1>> >> /\ pA = << <<1>>, <<0>> >>)
              => pA_inv = << <<-1>>, <<0>>, <<1>> >>

C7_Witness ==
    /\ theta = 1
    /\ xi_OA = << <<1>>, <<1>> >>
    /\ pA = << <<1>>, <<0>> >>
    /\ pA_inv = << <<-1>>, <<0>>, <<1>> >>

\* C8: chained transforms compose by matrix multiplication: with the second
\* transform read as T_AB, (T_OA . T_AB) . p equals T_OA . (T_AB . p) and
\* T_OA . T_AB is the transform of angle theta + theta_b and translation
\* xi_OA + R(theta) xi_ob; and the point mapped from frame A to frame B through
\* O, inverse(T_OB) . (T_OA . p), is (inverse(T_OB) . T_OA) . p, which is
\* R(-theta_b) (R(theta) p + xi_OA - xi_ob).
C8_ChainComposes ==
    pc = "done" =>
        /\ dot(dot(T_OA, t_ob), Hom(pA)) = dot(T_OA, dot(t_ob, Hom(pA)))
        /\ IsTransform(dot(T_OA, t_ob), theta + theta_b,
                       RotateThenAdd(theta, X(xi_ob), Y(xi_ob),
                                     X(xi_OA), Y(xi_OA)))
        /\ bp = dot(t_bo, dot(T_OA, Hom(pA)))
        /\ bp = dot(dot(t_bo, T_OA), Hom(pA))
        /\ bp = Hom(RotateThenAdd(-theta_b, X(pO) - X(xi_ob),
                                  Y(pO) - Y(xi_ob), 0, 0))

\* Frame A a quarter turn from O at (2, 1), frame B a half turn from O at
\* (1, 2): the point (1, 0) of A is (2, 2) in O and (-1, 0) in B.
C8_Witness ==
    /\ pc = "done"
    /\ theta = 1 /\ xi_OA = << <<2>>, <<1>> >>
    /\ theta_b = 2 /\ xi_ob = << <<1>>, <<2>> >>
    /\ pA = << <<1>>, <<0>> >>
    /\ pO = << <<2>>, <<2>>, <<1>> >>
    /\ bp = << <<-1>>, <<0>>, <<1>> >>


\* ------------------------------------------------------------------------
\* control/VehicleKinematicsExamples.ipynb: the values the specification states
\* ------------------------------------------------------------------------

\* Whether the solver holds a state and fun at that state.
SolverBuilt == run = 1 /\ kpc \in {"loop", "return", "done"}

\* Whether the control returns the same (v, omega) at every time and state.
Constant(u) == u.kind \in {"default", "const"}

\* (v, omega) of a constant control, read from the control itself.
SpeedOf(u) == IF u.kind = "default" THEN Zero ELSE u.v

TurnRateOf(u) == IF u.kind = "default" THEN Zero ELSE u.omega

\* (v cos th, v sin th, omega) at a heading of th whole quarter turns.
DerivativeAt(th, v, omega) ==
    CASE th % 4 = 0 -> <<v, Zero, omega>>
      [] th % 4 = 1 -> <<Zero, v, omega>>
      [] th % 4 = 2 -> <<QNeg(v), Zero, omega>>
      [] th % 4 = 3 -> <<Zero, QNeg(v), omega>>

\* Whether the control is no control: left unspecified, or (0, 0).
ZeroControl(u) == Constant(u) /\ SpeedOf(u) = Zero /\ TurnRateOf(u) = Zero

\* C9: unicycle_motion(t, (x, y, theta), u_fn) is (v cos theta, v sin theta,
\* omega) with (v, omega) = u_fn(t, state): at every state the solver holds
\* whose heading is a whole number of quarter turns, fun at that state is that
\* vector; at a heading of 0 (a whole number of turns) it is (v, 0, omega); and
\* with u_fn left unspecified it is (0, 0, 0) at every time and state.
C9_UnicycleDerivative ==
    (SolverBuilt /\ Constant(u_fn)) =>
        /\ sol_y[3][2] = 1 =>
              sol_f = DerivativeAt(sol_y[3][1], SpeedOf(u_fn), TurnRateOf(u_fn))
        /\ sol_y[3] = Zero => sol_f = <<SpeedOf(u_fn), Zero, TurnRateOf(u_fn)>>
        /\ u_fn.kind = "default" => sol_f = ZeroVec
        /\ sol_f[3] = TurnRateOf(u_fn)

\* The solver has stepped to a heading of one quarter turn under v = 0.5 and
\* omega of a quarter turn per second, where the derivative is (0, 0.5, 1).
C9_Witness ==
    /\ kpc = "loop"
    /\ Len(ts) >= 2
    /\ u_fn = u_const(Frac(1, 2), One)
    /\ sol_y[3] = One
    /\ sol_f = <<Zero, Frac(1, 2), One>>

\* C10: integrating with zero control, over any time span and from any
\* initial state, gives a constant trajectory: every sample collected, and
\* every sample of the trajectory returned, equals the initial state, after
\* any number of solver steps.
C10_ZeroControlConstant ==
    (SolverBuilt /\ ZeroControl(u_fn)) =>
        /\ sol_y = x_0
        /\ \A i \in 1..Len(ys) : ys[i] = x_0
        /\ kpc = "done" =>
              /\ Len(soln.y) >= 1
              /\ \A i \in 1..Len(soln.y) : soln.y[i] = x_0

\* An integration with the default control that returned after two solver
\* steps from an initial state off the origin.
C10_Witness ==
    /\ kpc = "done"
    /\ u_fn = u_default
    /\ Len(soln.y) >= 3
    /\ x_0 = <<One, One, One>>
    /\ soln.y[Len(soln.y)] = x_0


\* t0 < t_f
ForwardSpan == QLess(t_span[1], t_span[2])

\* The times of a trajectory are strictly increasing.
StrictlyIncreasing(T) == \A i \in 1..(Len(T) - 1) : QLess(T[i], T[i + 1])

\* C11: the trajectory returned by the integration over (t0, t_f) with
\* t0 < t_f is an ordered sequence of samples with strictly increasing times;
\* its first sample is at t0 with the initial state, its last sample is at
\* exactly t_f, and no sample lies outside [t0, t_f].
C11_TrajectoryCoversSpan ==
    (kpc = "done" /\ ForwardSpan) =>
        /\ Len(soln.t) >= 2
        /\ Len(soln.y) = Len(soln.t)
        /\ StrictlyIncreasing(soln.t)
        /\ soln.t[1] = t_span[1]
        /\ soln.y[1] = x_0
        /\ soln.t[Len(soln.t)] = t_span[2]
        /\ \A i \in 1..Len(soln.t) :
              ~QLess(soln.t[i], t_span[1]) /\ ~QLess(t_span[2], soln.t[i])


\* The heading a constant angular speed gives at time t.
HeadingAt(t) ==
    QAdd(x_0[3], QMul(TurnRateOf(u_fn), QSub(t, t_span[1])))

\* C12: under a constant angular speed omega the final heading is the
\* initial heading plus omega (t_f - t0), and the heading of every sample
\* at time t is the initial heading plus omega (t - t0); with v = 0.5 and
\* omega = pi/6 (a third of a quarter turn per second) from (0, 0, 0) the
\* heading after 3 seconds is a quarter turn (after 10 seconds, 10/3 quarter
\* turns = 5 pi/3).
C12_FinalHeading ==
    (kpc = "done" /\ Constant(u_fn)) =>
        /\ soln.y[Len(soln.y)][3] = HeadingAt(t_span[2])
        /\ \A i \in 1..Len(soln.y) : soln.y[i][3] = HeadingAt(soln.t[i])

\* The notebook's control over (0, 3) from the origin: the run has returned
\* after at least two solver steps with a heading of a quarter turn.
C12_Witness ==
    /\ kpc = "done"
    /\ u_fn = u_const(Frac(1, 2), Frac(1, 3))
    /\ t_span = <<Zero, Frac(3, 1)>>
    /\ x_0 = ZeroVec
    /\ Len(soln.y) >= 3
    /\ soln.y[Len(soln.y)][3] = One


\* C14: an integration whose derivative function raises or returns a
\* non-finite value ends in a failure the caller sees: after an exception
\* there is no result and no samples, and the samples the caller has read
\* (T = soln.t, X = soln.y) are those of a run that succeeded and end at t_f,
\* never those of a run that stopped before t_f.
C14_FailureSurfaced ==
    /\ kraised # None =>
          soln = None /\ T_samples = None /\ X_samples = None
    /\ T_samples # None =>
          /\ soln.success
          /\ soln.status = 0
          /\ T_samples[Len(T_samples)] = t_span[2]
          /\ Len(X_samples) = Len(T_samples)


\* C15: a time span that violates t0 < t_f (t0 equal to or greater than t_f)
\* fails fast with an error and produces no trajectory: the solver is never
\* started on it, nothing is integrated and no result is returned.
C15_BadSpanFailsFast ==
    ~ForwardSpan =>
        /\ kpc \in {"solve", "raised"}
        /\ kpc = "raised" => kraised # None
        /\ ts = None /\ ys = None
        /\ soln = None
        /\ T_samples = None /\ X_samples = None


\* C16: when the control function returns a value that is no pair (v, omega),
\* the first evaluation of unicycle_motion raises and returns no derivative,
\* and the exception leaves the integration: the solver holds no state, no
\* sample is collected, no result is returned and nothing is read, and the
\* notebook has stopped on the exception.
C16_BadControlRaises ==
    (u_fn.kind = "bad_shape" /\ kpc # "solve") =>
        /\ kpc = "raised"
        /\ kraised = ValueError
        /\ sol_t = None /\ sol_y = None /\ sol_f = None
        /\ ts = None /\ ys = None
        /\ soln = None
        /\ T_samples = None /\ X_samples = None

\* The integration was called with a control that returns three components
\* and has raised.
C16_Witness ==
    /\ u_fn = u_bad_shape(3)
    /\ kpc = "raised"
    /\ kraised = ValueError
    /\ unicycle_motion(t_span[1], x_0, u_fn) = ValueError


\* T with its bottom row replaced by zeros: a singular matrix.
Singular(T) == [T EXCEPT ![3] = <<0, 0, 0>>]

\* C17: inversion never fails on a well-formed transform: every matrix
\* rigid_transformation2d returns (T_OA, t_ob, and the historical version's
\* test) has determinant 1, no cell of the notebook raises, and the inverses
\* bound are inverses (T T^-1 = I); the inversion of a singular matrix raises
\* LinAlgError and yields no matrix.
C17_InversionNeverFails ==
    /\ pc # "error" /\ raised = None
    /\ test # None => det(test) = 1
    /\ T_OA # None =>
          /\ det(T_OA) = 1
          /\ inv(T_OA) # LinAlgError
          /\ det(Singular(T_OA)) = 0
          /\ inv(Singular(T_OA)) = LinAlgError
    /\ pc \in {"chain", "done"} =>
          T_AO # None /\ T_AO # LinAlgError /\ dot(T_OA, T_AO) = I3
    /\ pc = "done" =>
          /\ det(t_ob) = 1
          /\ t_bo # None /\ t_bo # LinAlgError /\ dot(t_ob, t_bo) = I3

\* Both inversions of the notebook have run, on transforms with a rotation
\* by three quarter turns and a translation other than 0.
C17_Witness ==
    /\ pc = "done"
    /\ theta = 3 /\ xi_OA = << <<1>>, <<2>> >>
    /\ theta_b = 3 /\ xi_ob = << <<2>>, <<1>> >>
    /\ det(T_OA) = 1 /\ det(t_ob) = 1
    /\ T_AO # None /\ t_bo # None


\* C18: every operation is free of side effects.  No step of either notebook
\* changes a value it was given: the points, angles and translations, and the
\* transforms, rotations and mapped points once bound, stay as they are when
\* a transform is applied or inverted; the initial state, the time span and
\* the control stay as they are through both integrations; the second
\* integration starts from the same initial state and time span as the first,
\* and the first trajectory (soln, T, X) is unchanged by it.
C18_NoSideEffects ==
    [][ /\ pc # "off" => inputs' = inputs
        /\ \A i \in 1..Len(histVars) :
              histVars[i] # None => histVars'[i] = histVars[i]
        /\ \A i \in 1..Len(frameVars) :
              frameVars[i] # None => frameVars'[i] = frameVars[i]
        /\ \A i \in 1..Len(chainVars) :
              chainVars[i] # None => chainVars'[i] = chainVars[i]
        /\ kpc # "off" => kinInputs' = kinInputs
        /\ soln # None => soln' = soln
        /\ T_samples # None => T_samples' = T_samples /\ X_samples' = X_samples
        /\ soln2 # None => soln2' = soln2
        /\ (run' = 2 /\ run = 1) =>
              /\ ts' = <<t_span[1]>> /\ ys' = <<x_0>>
              /\ sol_t' = t_span[1] /\ sol_y' = x_0
        /\ kpc' = "done2" =>
              /\ soln2'.t[1] = t_span[1] /\ soln2'.y[1] = x_0
              /\ soln' = soln /\ soln'.y[1] = x_0
      ]_vars

\* The second integration has returned after a first one that moved the
\* vehicle: the initial state is still the origin, and both trajectories
\* start there.
C18_Witness ==
    /\ kpc = "done2"
    /\ u_fn = u_const(Frac(1, 2), Frac(1, 3))
    /\ x_0 = ZeroVec
    /\ Len(soln.y) >= 3 /\ soln.y[Len(soln.y)] # x_0
    /\ Len(soln2.y) >= 3 /\ soln2.y[1] = x_0
    /\ T_samples = soln.t /\ X_samples = soln.y


\* The integration has returned a trajectory that reaches t_f.
ReturnedAtBound ==
    /\ kpc \in {"done", "read"}
    /\ soln.status = 0
    /\ soln.t[Len(soln.t)] = t_span[2]

C20_HomogeneousPreserved ==
    /\ pO # None => Len(pO) = 3 /\ pO[3] = <<1>>
    /\ pA_inv # None => Len(pA_inv) = 3 /\ pA_inv[3] = <<1>>
    /\ bp # None =>
          /\ Len(bp) = 3 /\ bp[3] = <<1>>
          /\ dot(t_ob, bp)[3] = <<1>>
          /\ dot(T_AO, dot(t_ob, bp))[3] = <<1>>
          /\ dot(T_AO, dot(t_ob, bp)) = Hom(pA)

\* The chain A -> O -> B has run on transforms that rotate and translate, and
\* the point in B is another point than the one in A.
C20_Witness ==
    /\ pc = "done"
    /\ theta = 1 /\ theta_b = 2
    /\ xi_OA = << <<1>>, <<2>> >> /\ xi_ob = << <<2>>, <<0>> >>
    /\ bp # Hom(pA)
    /\ bp[3] = <<1>>


\* C21: the two versions of rotation_2d agree: the historical one, the general
\* inverse of [[cos, sin], [-sin, cos]], returns the matrix the direct one
\* returns, [[cos, -sin], [sin, cos]], so the rotated point and the transform
\* rigid_transformation2d builds are the same on either version (for the
\* frame A and for the frame B of the chain).
C21_VersionsAgree ==
    /\ R_OA # None =>
          /\ rotation_2d_hist(theta) = R_OA
          /\ p0 = pO_rot
    /\ T_OA # None => test = T_OA
    /\ t_ob # None =>
          /\ rotation_2d_hist(theta_b) = rotation_2d(theta_b)
          /\ rigid_transformation2d_hist(theta_b, xi_ob) = t_ob

\* Both versions have built the transform of a frame a quarter turn away (the
\* matrix handed to the inversion is not symmetric there) with a translation.
C21_Witness ==
    /\ test # None /\ T_OA # None
    /\ theta = 1
    /\ xi_OA = << <<1>>, <<2>> >>
    /\ test[1] = <<0, -1, 1>>
    /\ Transpose(R_OA) # R_OA


\* The squared distance between the points a and b (column vectors; of
\* homogeneous points, only the two coordinates count).
SqDist(a, b) ==
    (a[1][1] - b[1][1]) * (a[1][1] - b[1][1])
      + (a[2][1] - b[2][1]) * (a[2][1] - b[2][1])

\* M keeps the squared distance of every two points of the model (Images
\* pairs each point with its image under M).
PreservesDistances(M) ==
    \A Images \in {{<<p, dot(M, Hom(p))>> : p \in Vectors}} :
        \A a \in Images, b \in Images :
            SqDist(a[2], b[2]) = SqDist(a[1], b[1])

\* C22: a rigid transform preserves distances: for every theta, xi and every
\* pair of points p and q, the squared distance between T.p and T.q is the
\* squared distance between p and q, and the same holds for the inverse of
\* T.  T_OA and its inverse T_AO are examined on every pair of points in the
\* state that follows their construction (no later cell rebinds them); the
\* images the notebook computes, pO and pA_inv, are compared with the images
\* of every second point q, and bp, the image of pO under the inverse t_bo of
\* the chain, with the image of the origin of the frame A, xi_OA.
C22_DistancesPreserved ==
    /\ pc = "apply" => PreservesDistances(T_OA)
    /\ pc = "chain" => PreservesDistances(T_AO)
    /\ pc = "invert" =>
          \A q \in Vectors : \A b \in {dot(T_OA, Hom(q))} :
              SqDist(pO, b) = SqDist(pA, q)
    /\ pc = "chain" =>
          \A q \in Vectors : \A b \in {dot(T_AO, Hom(q))} :
              SqDist(pA_inv, b) = SqDist(pA, q)
    /\ pc = "done" =>
          \A b \in {dot(t_bo, Hom(xi_OA))} : SqDist(bp, b) = SqDist(pO, xi_OA)

\* The notebook has mapped a point by a transform that rotates a quarter
\* turn and translates, and by its inverse; the images are other points than
\* the original, and a second point lies at squared distance 5 from the
\* first, before and after the transform.
C22_Witness ==
    /\ pc = "done"
    /\ theta = 1 /\ xi_OA = << <<1>>, <<1>> >>
    /\ pA = << <<1>>, <<2>> >>
    /\ pO = << <<-1>>, <<2>>, <<1>> >>
    /\ pA_inv # Hom(pA)
    /\ \E q \in Vectors :
          /\ SqDist(pA, q) = 5
          /\ dot(T_OA, Hom(q)) # Hom(q)
          /\ SqDist(pO, dot(T_OA, Hom(q))) = 5
          /\ SqDist(pA_inv, dot(T_AO, Hom(q))) = 5

====
